---- MODULE Spec2Model ----
(***************************************************************************)
(* Model of two parts of mimirsbrunn:                                       *)
(*   - src/src/bin/bano2mimir.rs: Bano::insee, Bano::fantoir,               *)
(*     Bano::into_addr and the import run index_bano;                       *)
(*   - src/libs/bragi/src/routes/autocomplete.rs: Params::coord,            *)
(*     JsonParams::get_es_shape, call_autocomplete and the two handlers.    *)
(* Strings that the code slices are sequences of characters, each with its  *)
(* UTF-8 width, because str::len and str slicing count bytes.  Option<T>    *)
(* is a sequence of length 0 (None) or 1 (Some).                            *)
(***************************************************************************)
EXTENDS Integers, Sequences, FiniteSets, TLC

VARIABLES pc, admins_by_insee, admins_geofinder, rec, out, result, failures,
          apc, req, shape, query, response, backend_calls

vars == <<pc, admins_by_insee, admins_geofinder, rec, out, result, failures,
          apc, req, shape, query, response, backend_calls>>

importVars == <<pc, admins_by_insee, admins_geofinder, rec, out, result, failures>>
queryVars == <<apc, req, shape, query, response, backend_calls>>

None == <<>>
Some(x) == <<x>>

(***************************************************************************)
(* Bounds of the model.                                                     *)
(***************************************************************************)
MaxAdmins == 3
MaxZeros == 4
MaxTail == 6
MaxVertices == 3
MaxDim == 3
MaxRings == 2

(***************************************************************************)
(* Characters and byte lengths.                                             *)
(***************************************************************************)
EAcute == "e_acute"

Width(c) == IF c = EAcute THEN 2 ELSE 1

RECURSIVE ByteLen(_)
ByteLen(s) == IF s = <<>> THEN 0 ELSE Width(Head(s)) + ByteLen(Tail(s))

\* The characters of s that end at or before byte n, when byte n is a
\* character boundary of s.
IsCharBoundary(s, n) == \E k \in 0..Len(s) : ByteLen(SubSeq(s, 1, k)) = n

SliceTo(s, n) == SubSeq(s, 1, CHOOSE k \in 0..Len(s) : ByteLen(SubSeq(s, 1, k)) = n)

RECURSIVE trim_left_matches(_, _)
trim_left_matches(s, c) ==
    IF s # <<>> /\ Head(s) = c THEN trim_left_matches(Tail(s), c) ELSE s

Ok(v) == [kind |-> "ok", value |-> v]
Panic(m) == [kind |-> "panic", value |-> m]
Err(k, m) == [kind |-> "err", value |-> [error |-> k, msg |-> m]]

AssertLen5 == "assertion failed: self.id.len() >= 5"
AssertLen10 == "assertion failed: self.id.len() >= 10"
NotCharBoundary(n) == <<"byte index is not a char boundary", n>>

InseeLen == 5
FantoirLen == 10
CityLevel == 8

\* &s[..n]
SliceOrPanic(s, n) ==
    IF n > ByteLen(s) \/ ~IsCharBoundary(s, n)
    THEN Panic(NotCharBoundary(n))
    ELSE Ok(SliceTo(s, n))

\* insee without the trimming of the leading zeros
inseeUntrimmed(id) ==
    IF ~(ByteLen(id) >= InseeLen) THEN Panic(AssertLen5)
    ELSE SliceOrPanic(id, InseeLen)

insee(id) ==
    IF ~(ByteLen(id) >= InseeLen) THEN Panic(AssertLen5)
    ELSE LET p == SliceOrPanic(id, InseeLen)
         IN IF p.kind = "panic" THEN p ELSE Ok(trim_left_matches(p.value, "0"))

\* fantoir with the assertion off by one
fantoirOffByOne(id) ==
    IF ~(ByteLen(id) >= FantoirLen - 1) THEN Panic(AssertLen10)
    ELSE SliceOrPanic(id, FantoirLen)

fantoir(id) ==
    IF ~(ByteLen(id) >= FantoirLen) THEN Panic(AssertLen10)
    ELSE SliceOrPanic(id, FantoirLen)

(***************************************************************************)
(* Administrative regions.                                                  *)
(***************************************************************************)
P1 == [lon |-> 2, lat |-> 48]
P2 == [lon |-> 3, lat |-> 49]
Coords == {P1, P2}

Admin(i, l, w, c, b) ==
    [id |-> i, level |-> l, weight |-> w, insee |-> c, boundary |-> b]

AdminUniverse ==
    { Admin("admin:a", 8, 42, <<"1">>, Some({P1})),
      Admin("admin:b", 8, 7, <<"0", "1", "2", "3", "4">>, Some({P1, P2})),
      Admin("admin:c", 7, 3, <<"1", "0">>, Some({P1, P2})),
      Admin("admin:d", 6, 9, <<"1">>, Some({P1})),
      Admin("admin:e", 8, 5, <<>>, Some({P2})) }

RECURSIVE SeqsNoDup(_, _)
SeqsNoDup(S, n) ==
    IF n = 0 THEN {<<>>}
    ELSE LET shorter == SeqsNoDup(S, n - 1)
         IN shorter \cup
            { Append(p[1], p[2]) :
                p \in { q \in shorter \X S :
                          /\ Len(q[1]) = n - 1
                          /\ \A i \in 1..Len(q[1]) : q[1][i] # q[2] } }

\* What get_admins_from_dataset can return on success.
AdminLists == SeqsNoDup(AdminUniverse, MaxAdmins)

BackendErrors == {"index_not_found", "connection_refused"}

\* AdminGeoFinder: FromIterator keeps the regions, get returns those whose
\* boundary contains the coordinate.
GeoFinderCollect(admins) == admins

Contains(a, coord) ==
    /\ a.boundary # None
    /\ [lon |-> coord.x, lat |-> coord.y] \in a.boundary[1]

GeoFinderGet(finder, coord) == SelectSeq(finder, LAMBDA a : Contains(a, coord))

\* admins.into_iter().filter(..).map(..).collect() into a BTreeMap: a later
\* region replaces an earlier one with the same insee.
EmptyMap == [k \in {} |-> k]

RECURSIVE CollectByInsee(_, _)
CollectByInsee(admins, m) ==
    IF admins = <<>> THEN m
    ELSE LET a == Head(admins)
         IN CollectByInsee(Tail(admins),
                IF a.insee = <<>> THEN m
                ELSE (a.insee :> [a EXCEPT !.boundary = None]) @@ m)

(***************************************************************************)
(* Bano::into_addr.                                                         *)
(***************************************************************************)
\* retain that removes nothing
RetainAll(admins, admin) == admins

Retain(admins, admin) == SelectSeq(admins, LAMBDA a : a.level # admin.level)

\* the override put in front of the chain instead of pushed at its end
OverrideChainFront(admins, admins_from_insee, key) ==
    IF key \in DOMAIN admins_from_insee
    THEN <<admins_from_insee[key]>> \o Retain(admins, admins_from_insee[key])
    ELSE admins

\* lines 92-95: if let Some(admin) = admins_from_insee.get(self.insee())
OverrideChain(admins, admins_from_insee, key) ==
    IF key \in DOMAIN admins_from_insee
    THEN Append(Retain(admins, admins_from_insee[key]), admins_from_insee[key])
    ELSE admins

\* the weight of the last level-8 region instead of the first
RECURSIVE FindWeightLast(_)
FindWeightLast(admins) ==
    IF admins = <<>> THEN 0
    ELSE IF admins[Len(admins)].level = CityLevel THEN admins[Len(admins)].weight
    ELSE FindWeightLast(SubSeq(admins, 1, Len(admins) - 1))

\* lines 97-100: admins.iter().find(|a| a.level == 8).map_or(0., |a| a.weight)
RECURSIVE FindWeight(_)
FindWeight(admins) ==
    IF admins = <<>> THEN 0
    ELSE IF Head(admins).level = CityLevel THEN Head(admins).weight
    ELSE FindWeight(Tail(admins))

into_addr(b, admins_from_insee, finder) ==
    LET street_label == <<b.street, " (", b.city, ")">>
        addr_name == <<b.nb, " ", b.street>>
        addr_label == <<addr_name, " (", b.city, ")">>
        f == fantoir(b.id)
    IN  IF f.kind = "panic" THEN f
        ELSE
        LET street_id == <<"street:", f.value>>
            found == GeoFinderGet(finder, [x |-> b.lon, y |-> b.lat])
            i == insee(b.id)
        IN  IF i.kind = "panic" THEN i
            ELSE
            LET admins == OverrideChain(found, admins_from_insee, i.value)
                weight == FindWeight(admins)
                street == [id |-> street_id,
                           name |-> b.street,
                           label |-> street_label,
                           administrative_regions |-> admins,
                           weight |-> weight,
                           zip_codes |-> <<b.zip>>,
                           coord |-> [lon |-> b.lon, lat |-> b.lat]]
            IN  Ok([id |-> <<"addr:", b.lon, ";", b.lat>>,
                    name |-> addr_name,
                    house_number |-> b.nb,
                    street |-> street,
                    label |-> addr_label,
                    coord |-> [lon |-> b.lon, lat |-> b.lat],
                    weight |-> weight,
                    zip_codes |-> <<b.zip>>])

(***************************************************************************)
(* Raw records.                                                             *)
(***************************************************************************)
Zeros(n) == [i \in 1..n |-> "0"]

Mids == { <<>>, <<"1">>, <<"1", "0">>, <<EAcute>>, <<"1", EAcute>> }
Suffixes == { <<>>, <<EAcute>> }

ExampleId == <<"0", "1", "2", "3", "4", "5", "6", "7", "8", "9">>

Ids ==
    { Zeros(z) \o m \o Zeros(t) \o s :
        z \in 0..MaxZeros, m \in Mids, t \in 0..MaxTail, s \in Suffixes }
    \cup {ExampleId}

Bano(id, c) ==
    [id |-> id, nb |-> "12", street |-> "Rue A", zip |-> "75001",
     city |-> "Paris", src |-> "x", lat |-> c.lat, lon |-> c.lon]

Records == { Bano(id, c) : id \in Ids, c \in Coords }

(***************************************************************************)
(* index_bano.                                                              *)
(***************************************************************************)
NoRecord == None
Running == [kind |-> "running", value |-> None]

InitImport ==
    /\ pc = "initialize_templates"
    /\ admins_by_insee = EmptyMap
    /\ admins_geofinder = <<>>
    /\ rec = NoRecord
    /\ out = None
    /\ result = Running
    /\ failures = {}

\* line 138: rubber.initialize_templates()?
InitializeTemplates ==
    /\ pc = "initialize_templates"
    /\ \/ /\ pc' = "get_admins"
          /\ UNCHANGED <<result, failures>>
       \/ \E e \in BackendErrors :
            /\ pc' = "done"
            /\ result' = Err("BackendError", e)
            /\ failures' = failures \cup {<<"initialize_templates", e>>}
    /\ UNCHANGED <<admins_by_insee, admins_geofinder, rec, out, queryVars>>

\* lines 140-148: the value of admins after unwrap_or_else
UnwrapOrEmpty(r) == IF r.kind = "ok" THEN r.value ELSE <<>>

\* lines 140-157
LoadAdmins ==
    /\ pc = "get_admins"
    /\ \E r \in {Ok(l) : l \in AdminLists}
                 \cup {Err("BackendError", e) : e \in BackendErrors} :
          LET admins == UnwrapOrEmpty(r)
          IN  /\ admins_geofinder' = GeoFinderCollect(admins)
              /\ admins_by_insee' = CollectByInsee(admins, EmptyMap)
              /\ failures' = IF r.kind = "err"
                             THEN failures \cup {<<"get_admins_from_dataset", r.value.msg>>}
                             ELSE failures
    /\ pc' = "import_addresses"
    /\ UNCHANGED <<rec, out, result, queryVars>>

\* line 171: the closure of import_addresses applied to one record
EnrichRecord ==
    /\ pc = "import_addresses"
    /\ \E b \in Records :
          /\ rec' = Some(b)
          /\ out' = Some(into_addr(b, admins_by_insee, admins_geofinder))
    /\ pc' = "enriched"
    /\ UNCHANGED <<admins_by_insee, admins_geofinder, result, failures, queryVars>>

\* import_addresses: an enriched address goes to the bulk buffer; a panic of
\* the closure ends the run.
HandOver ==
    /\ pc = "enriched"
    /\ IF out[1].kind = "panic"
       THEN /\ pc' = "done"
            /\ result' = out[1]
            /\ UNCHANGED <<rec, out>>
       ELSE /\ pc' = "import_addresses"
            /\ rec' = NoRecord
            /\ out' = None
            /\ UNCHANGED result
    /\ UNCHANGED <<admins_by_insee, admins_geofinder, failures, queryVars>>

\* lines 164-172: the value of import_addresses is the value of index_bano
ImportReturns ==
    /\ pc = "import_addresses"
    /\ \/ /\ result' = Ok(None)
          /\ UNCHANGED failures
       \/ \E e \in BackendErrors :
            /\ result' = Err("BackendError", e)
            /\ failures' = failures \cup {<<"import_addresses", e>>}
    /\ pc' = "done"
    /\ UNCHANGED <<admins_by_insee, admins_geofinder, rec, out, queryVars>>

(***************************************************************************)
(* Autocomplete requests.                                                   *)
(***************************************************************************)
Lons == {2, 181}
Lats == {48, 91}

OptionOf(S) == {None} \cup {Some(x) : x \in S}

\* Vertices (lon, lat, altitude, ...) cut to 0..MaxDim components.
FullPosition(lon, lat) ==
    [i \in 1..MaxDim |-> IF i = 1 THEN lon ELSE IF i = 2 THEN lat ELSE 9]

Positions ==
    { SubSeq(FullPosition(lon, lat), 1, d) :
        lon \in {1, 2}, lat \in {5}, d \in 0..MaxDim }

RECURSIVE SeqsUpTo(_, _)
SeqsUpTo(S, n) ==
    IF n = 0 THEN {<<>>}
    ELSE LET shorter == SeqsUpTo(S, n - 1)
         IN shorter \cup
            { Append(s, x) : s \in {u \in shorter : Len(u) = n - 1}, x \in S }

Rings == SeqsUpTo(Positions, MaxVertices)
SmallRings == { <<>>, << <<1, 5>> >> }

Polygons ==
    { <<r>> : r \in Rings }
    \cup { p \in SeqsUpTo(SmallRings, MaxRings) : Len(p) # 1 }

Geometry(t, c) == [type |-> t, coordinates |-> c]

Geometries ==
    { Geometry("Polygon", p) : p \in Polygons }
    \cup { Geometry("LineString", << <<1, 5>>, <<2, 6>> >>),
           Geometry("Point", <<1, 5>>) }

GeoJson(t, g) == [type |-> t, geometry |-> g]

GeoJsons ==
    { GeoJson("Feature", g) : g \in OptionOf(Geometries) }
    \cup { GeoJson("FeatureCollection", None), GeoJson("Geometry", None) }

default_limit == 10

Params(lon, lat) ==
    [q |-> "rue", limit |-> default_limit, offset |-> 0, lon |-> lon, lat |-> lat]

Requests ==
    { [method |-> "GET", params |-> Params(lon, lat), json_params |-> None] :
        lon \in OptionOf(Lons), lat \in OptionOf(Lats) }
    \cup
    { [method |-> "POST", params |-> Params(lon, lat), json_params |-> Some(s)] :
        lon \in OptionOf(Lons), lat \in OptionOf(Lats), s \in GeoJsons }

\* params::make_coord
make_coord(lon, lat) ==
    IF lat > 90 \/ lat < -90 THEN Err("InvalidParam", "lat is not a valid latitude")
    ELSE IF lon > 180 \/ lon < -180 THEN Err("InvalidParam", "lon is not a valid longitude")
    ELSE Ok([lon |-> lon, lat |-> lat])

LonAndLat == "you should provide a 'lon' AND a 'lat' parameter if you provide one of them"

\* coord that accepts a lone lon or lat as no coordinate
coordLenient(p) ==
    IF p.lon # None /\ p.lat # None
    THEN LET c == make_coord(p.lon[1], p.lat[1])
         IN IF c.kind = "err" THEN c ELSE Ok(Some(c.value))
    ELSE Ok(None)

\* Params::coord
coord(p) ==
    IF p.lon # None /\ p.lat # None
    THEN LET c == make_coord(p.lon[1], p.lat[1])
         IN IF c.kind = "err" THEN c ELSE Ok(Some(c.value))
    ELSE IF p.lon = None /\ p.lat = None THEN Ok(None)
    ELSE Err("InvalidParam", LonAndLat)

\* the ring without the inversion of its coordinates
RECURSIVE KeepRing(_)
KeepRing(ring) ==
    IF ring = <<>> THEN <<>>
    ELSE LET c == Head(ring)
         IN IF Len(c) >= 2
            THEN << <<c[1], c[2]>> >> \o KeepRing(Tail(ring))
            ELSE KeepRing(Tail(ring))

\* lines 97-100: filter_map(|c| c.get(0..=1)).map(|c| (c[1], c[0]))
RECURSIVE InvertRing(_)
InvertRing(ring) ==
    IF ring = <<>> THEN <<>>
    ELSE LET c == Head(ring)
         IN IF Len(c) >= 2
            THEN << <<c[2], c[1]>> >> \o InvertRing(Tail(ring))
            ELSE InvertRing(Tail(ring))

\* get_es_shape that takes the outer ring of a polygon with holes
get_es_shape_outer(s) ==
    IF s.type = "Feature"
    THEN IF s.geometry # None
         THEN LET geom == s.geometry[1]
              IN IF geom.type = "Polygon"
                 THEN IF Len(geom.coordinates) >= 1
                      THEN Ok(InvertRing(geom.coordinates[1]))
                      ELSE Err("InvalidShape", "only polygon without holes are supported")
                 ELSE Err("InvalidShape", "only polygon are supported")
         ELSE Err("InvalidShape", "no geometry")
    ELSE Err("InvalidShape", "only 'feature' is supported")

\* JsonParams::get_es_shape
get_es_shape(s) ==
    IF s.type = "Feature"
    THEN IF s.geometry # None
         THEN LET geom == s.geometry[1]
              IN IF geom.type = "Polygon"
                 THEN IF Len(geom.coordinates) = 1
                      THEN Ok(InvertRing(geom.coordinates[1]))
                      ELSE Err("InvalidShape", "only polygon without holes are supported")
                 ELSE Err("InvalidShape", "only polygon are supported")
         ELSE Err("InvalidShape", "no geometry")
    ELSE Err("InvalidShape", "only 'feature' is supported")

InitQuery ==
    /\ apc = "idle"
    /\ req = None
    /\ shape = None
    /\ query = None
    /\ response = None
    /\ backend_calls = 0

\* A request reaches one of the two handlers.
Receive ==
    /\ apc = "idle"
    /\ \E r \in Requests :
          /\ req' = Some(r)
          /\ apc' = IF r.method = "GET" THEN "autocomplete" ELSE "post_autocomplete"
    /\ shape' = None
    /\ query' = None
    /\ response' = None
    /\ backend_calls' = 0
    /\ UNCHANGED importVars

\* lines 146-151
Autocomplete ==
    /\ apc = "autocomplete"
    /\ shape' = None
    /\ apc' = "call_autocomplete"
    /\ UNCHANGED <<req, query, response, backend_calls, importVars>>

\* lines 153-159: json_params.get_es_shape()? is evaluated before the call
PostAutocomplete ==
    /\ apc = "post_autocomplete"
    /\ LET s == get_es_shape(req[1].json_params[1])
       IN IF s.kind = "err"
          THEN /\ response' = Some(s)
               /\ apc' = "done"
               /\ UNCHANGED shape
          ELSE /\ shape' = Some(s.value)
               /\ apc' = "call_autocomplete"
               /\ UNCHANGED response
    /\ UNCHANGED <<req, query, backend_calls, importVars>>

\* call_autocomplete that queries the backend before it looks at coord()
CallAutocompleteEager ==
    /\ apc = "call_autocomplete"
    /\ backend_calls' = backend_calls + 1
    /\ LET c == coord(req[1].params)
       IN IF c.kind = "err"
          THEN /\ response' = Some(c)
               /\ apc' = "done"
               /\ UNCHANGED query
          ELSE /\ query' = Some([q |-> req[1].params.q,
                                 offset |-> req[1].params.offset,
                                 limit |-> req[1].params.limit,
                                 coord |-> c.value,
                                 shape |-> shape])
               /\ apc' = "query"
               /\ UNCHANGED response
    /\ UNCHANGED <<req, shape, importVars>>

\* lines 118-141: the arguments, params.coord()? among them, are evaluated,
\* then query::autocomplete is called.
CallAutocomplete ==
    /\ apc = "call_autocomplete"
    /\ LET c == coord(req[1].params)
       IN IF c.kind = "err"
          THEN /\ response' = Some(c)
               /\ apc' = "done"
               /\ UNCHANGED <<query, backend_calls>>
          ELSE /\ query' = Some([q |-> req[1].params.q,
                                 offset |-> req[1].params.offset,
                                 limit |-> req[1].params.limit,
                                 coord |-> c.value,
                                 shape |-> shape])
               /\ backend_calls' = backend_calls + 1
               /\ apc' = "query"
               /\ UNCHANGED response
    /\ UNCHANGED <<req, shape, importVars>>

\* lines 142-143: the backend's answer becomes the response
BackendAnswers ==
    /\ apc = "query"
    /\ \/ response' = Some(Ok("features"))
       \/ \E e \in BackendErrors : response' = Some(Err("BackendError", e))
    /\ apc' = "done"
    /\ UNCHANGED <<req, shape, query, backend_calls, importVars>>

\* The response leaves the handler.
Respond ==
    /\ apc = "done"
    /\ apc' = "idle"
    /\ req' = None
    /\ shape' = None
    /\ query' = None
    /\ response' = None
    /\ backend_calls' = 0
    /\ UNCHANGED importVars

Init == InitImport /\ InitQuery

Next ==
    \/ InitializeTemplates
    \/ LoadAdmins
    \/ EnrichRecord
    \/ HandOver
    \/ ImportReturns

Spec == Init /\ [][Next]_vars

NextQuery ==
    \/ Receive
    \/ Autocomplete
    \/ PostAutocomplete
    \/ CallAutocomplete
    \/ BackendAnswers
    \/ Respond

SpecQuery == Init /\ [][NextQuery]_vars

(***************************************************************************)
(* Properties of the import run (specification Spec).                       *)
(***************************************************************************)
Enriched == pc = "enriched" /\ out # None /\ out[1].kind = "ok"

TheRecord == rec[1]
TheAddr == out[1].value
Chain == TheAddr.street.administrative_regions
Found == GeoFinderGet(admins_geofinder, [x |-> TheRecord.lon, y |-> TheRecord.lat])

\* The first InseeLen bytes of the identifier without their leading zeros,
\* written without the code's trimming loop.
StrippedPrefix(id) ==
    LET p == SliceTo(id, InseeLen)
        nz == {i \in 1..Len(p) : p[i] # "0"}
    IN  IF nz = {} THEN <<>>
        ELSE SubSeq(p, CHOOSE i \in nz : \A j \in nz : i <= j, Len(p))

OverrideMatched == StrippedPrefix(TheRecord.id) \in DOMAIN admins_by_insee
TheOverride == admins_by_insee[StrippedPrefix(TheRecord.id)]

\* The regions of s whose level is not l, in the order of s.
RECURSIVE OtherLevels(_, _)
OtherLevels(s, l) ==
    IF s = <<>> THEN <<>>
    ELSE IF Head(s).level = l THEN OtherLevels(Tail(s), l)
    ELSE <<Head(s)>> \o OtherLevels(Tail(s), l)

CountLevel(s, l) == Cardinality({i \in 1..Len(s) : s[i].level = l})

Levels == {a.level : a \in AdminUniverse}

\* C1: when the override map contains the record's insee code, the chain of
\* the enriched address is the geofinder's result without the regions of the
\* override's level, in their order, followed by the override region, which
\* is then the only region of its level.
C1_OverrideReplacesItsLevel ==
    (Enriched /\ OverrideMatched) =>
        /\ Chain = OtherLevels(Found, TheOverride.level) \o <<TheOverride>>
        /\ CountLevel(Chain, TheOverride.level) = 1
        /\ Chain[Len(Chain)] = TheOverride

C1_Witness ==
    /\ Enriched
    /\ OverrideMatched
    /\ \E i \in 1..(Len(Found) - 1) :
          Found[i].level = TheOverride.level /\ Found[i] # TheOverride
    /\ Len(Chain) >= 3

\* C2 as stated: every level has at most one region in the returned chain,
\* whatever the geofinder returned and whether or not an override matched.
C2_AtMostOnePerLevel ==
    Enriched => \A l \in Levels : CountLevel(Chain, l) <= 1

\* C2 amended: a level has exactly one region in the chain when an override
\* of that level matched, and otherwise as many regions as the geofinder
\* returned for the coordinate at that level.
C2_OnePerOverrideLevelOnly ==
    Enriched =>
        \A l \in Levels :
            CountLevel(Chain, l) =
                IF OverrideMatched /\ TheOverride.level = l THEN 1
                ELSE CountLevel(Found, l)

C2_Witness ==
    /\ Enriched
    /\ OverrideMatched
    /\ \E l \in Levels :
          /\ l # TheOverride.level
          /\ CountLevel(Chain, l) = 1
    /\ CountLevel(Found, TheOverride.level) = 2
    /\ CountLevel(Chain, TheOverride.level) = 1

\* C3: the weight of the address and of its street are equal, and are the
\* weight of the level-8 region of the final chain (the first one found), or
\* 0 without one; a matched level-8 override gives its own weight.
C3_WeightOfCity ==
    Enriched =>
        LET cities == {i \in 1..Len(Chain) : Chain[i].level = CityLevel}
            expected == IF cities = {} THEN 0
                        ELSE Chain[CHOOSE i \in cities : \A j \in cities : i <= j].weight
        IN  /\ TheAddr.weight = TheAddr.street.weight
            /\ TheAddr.weight = expected
            /\ (OverrideMatched /\ TheOverride.level = CityLevel)
                   => TheAddr.weight = TheOverride.weight

C3_Witness ==
    /\ Enriched
    /\ OverrideMatched
    /\ TheOverride.level = CityLevel
    /\ \E i \in 1..Len(Found) :
          Found[i].level = CityLevel /\ Found[i].weight # TheOverride.weight
    /\ TheAddr.weight = TheOverride.weight

MalformedIdentifier == Panic(AssertLen10)

\* C4 as stated: an identifier shorter than 10 characters fails with the
\* malformed-identifier outcome, one of 10 characters or more does not.
C4_ShortInCharacters ==
    pc = "enriched" =>
        /\ Len(TheRecord.id) < FantoirLen => out[1] = MalformedIdentifier
        /\ Len(TheRecord.id) >= FantoirLen => out[1] # MalformedIdentifier

\* C4 amended: the length is the identifier's length in bytes: enrichment
\* fails with the malformed-identifier outcome exactly when the identifier
\* is shorter than 10 bytes.
C4_ShortInBytes ==
    pc = "enriched" =>
        (ByteLen(TheRecord.id) < FantoirLen <=> out[1] = MalformedIdentifier)

C4_Witness ==
    /\ pc = "enriched"
    /\ ByteLen(TheRecord.id) = FantoirLen - 1
    /\ Len(TheRecord.id) < ByteLen(TheRecord.id)
    /\ out[1] = MalformedIdentifier

\* Backend failures other than the region lookup failing.
OtherFailures == {f \in failures : f[1] # "get_admins_from_dataset"}
LookupFailures == {f \in failures : f[1] = "get_admins_from_dataset"}

\* C9: a run in which the backend failed returns a BackendError, except when
\* the only failure is the region lookup finding no regions.
C9_BackendErrorsNotMasked ==
    (pc = "done" /\ failures # {}
        /\ failures # {<<"get_admins_from_dataset", "index_not_found">>})
    => (result.kind = "err" /\ result.value.error = "BackendError")

\* C10: the override map is keyed by the unmodified insee codes; an override
\* is applied only when the identifier's prefix without its leading zeros is
\* the key, so never for a key that begins with "0"; "0123456789" looks up
\* "1234".
OverrideApplied(k) ==
    /\ k \in DOMAIN admins_by_insee
    /\ Chain # <<>>
    /\ Chain[Len(Chain)] = admins_by_insee[k]

C10_ZeroKeysNeverApplied ==
    /\ DOMAIN admins_by_insee =
          {admins_geofinder[i].insee : i \in 1..Len(admins_geofinder)} \ {<<>>}
    /\ \A k \in DOMAIN admins_by_insee : admins_by_insee[k].insee = k
    /\ Enriched =>
          /\ \A k \in DOMAIN admins_by_insee :
                OverrideApplied(k) =>
                    /\ k[1] # "0"
                    /\ \E z \in 0..InseeLen :
                          Zeros(z) \o k = SliceTo(TheRecord.id, InseeLen)
                    /\ k = StrippedPrefix(TheRecord.id)
          /\ TheRecord.id = ExampleId =>
                /\ StrippedPrefix(TheRecord.id) = <<"1", "2", "3", "4">>
                /\ ~OverrideApplied(<<"0", "1", "2", "3", "4">>)
                /\ Chain = Found

C10_Witness ==
    /\ Enriched
    /\ TheRecord.id = ExampleId
    /\ <<"0", "1", "2", "3", "4">> \in DOMAIN admins_by_insee
    /\ Found # <<>>
    /\ Chain = Found

(***************************************************************************)
(* Properties of the autocomplete handlers (specification SpecQuery).       *)
(***************************************************************************)
TheRequest == req[1]
TheBody == TheRequest.json_params[1]

OneSided == (TheRequest.params.lon = None) # (TheRequest.params.lat = None)

IsFeature == TheBody.type = "Feature"
HasGeometry == IsFeature /\ TheBody.geometry # None
IsPolygon == HasGeometry /\ TheBody.geometry[1].type = "Polygon"
HasOneRing == IsPolygon /\ Len(TheBody.geometry[1].coordinates) = 1

ShapeRejected == TheRequest.method = "POST" /\ ~HasOneRing

ResponseIs(k) ==
    response # None /\ response[1].kind = "err" /\ response[1].value.error = k

\* get_es_shape has returned
ShapeEvaluated ==
    req # None /\ TheRequest.method = "POST" /\ apc # "post_autocomplete"

\* Params::coord has returned
CoordEvaluated ==
    /\ req # None
    /\ \/ apc = "query"
       \/ apc = "done" /\ ~ResponseIs("InvalidShape")

\* C5: a request that fails validation (a lone lon or lat, a rejected shape)
\* never reaches the backend: no backend call is made for it, and a
\* validation error is answered with zero backend calls, the shape's error
\* first.
C5_ValidationBeforeBackend ==
    req # None =>
        /\ (OneSided \/ ShapeRejected) =>
              /\ backend_calls = 0
              /\ query = None
              /\ apc # "query"
              /\ apc = "done" => (ResponseIs("InvalidShape") \/ ResponseIs("InvalidParam"))
        /\ (ShapeRejected /\ apc = "done") => ResponseIs("InvalidShape")
        /\ (ResponseIs("InvalidShape") \/ ResponseIs("InvalidParam")) => backend_calls = 0
        /\ ResponseIs("BackendError") => backend_calls = 1

C5_Witness ==
    /\ req # None
    /\ TheRequest.method = "POST"
    /\ HasOneRing
    /\ OneSided
    /\ apc = "done"
    /\ ResponseIs("InvalidParam")
    /\ backend_calls = 0

\* C6: coord gives the coordinate when a valid lon and lat come together,
\* no coordinate when both are absent, and fails with the lon-AND-lat
\* InvalidParam exactly when one of them comes alone.
C6_CoordPairing ==
    CoordEvaluated =>
        LET lon == TheRequest.params.lon
            lat == TheRequest.params.lat
            valid == /\ lon # None /\ lat # None
                     /\ lon[1] \in -180..180 /\ lat[1] \in -90..90
            lone == response = Some(Err("InvalidParam",
                "you should provide a 'lon' AND a 'lat' parameter if you provide one of them"))
        IN  /\ valid =>
                /\ query # None
                /\ query[1].coord = Some([lon |-> lon[1], lat |-> lat[1]])
            /\ (lon = None /\ lat = None) => (query # None /\ query[1].coord = None)
            /\ OneSided <=> lone

C6_Witness ==
    /\ CoordEvaluated
    /\ TheRequest.params.lon # None
    /\ TheRequest.params.lat = None
    /\ ResponseIs("InvalidParam")

ShapeError(m) == apc = "done" /\ response = Some(Err("InvalidShape", m))

\* C7 as stated: the first violated rule gives the failure, a value that is
\* not a Feature failing with "only feature is supported".
C7_ReasonsAsStated ==
    ShapeEvaluated =>
        IF ~IsFeature THEN ShapeError("only feature is supported")
        ELSE IF ~HasGeometry THEN ShapeError("no geometry")
        ELSE IF ~IsPolygon THEN ShapeError("only polygon are supported")
        ELSE IF ~HasOneRing THEN ShapeError("only polygon without holes are supported")
        ELSE shape # None /\ ~ResponseIs("InvalidShape")

\* C7 amended: the same four rules in the same order, the reason of a value
\* that is not a Feature being "only 'feature' is supported".
C7_ReasonsInOrder ==
    ShapeEvaluated =>
        IF ~IsFeature THEN ShapeError("only 'feature' is supported")
        ELSE IF ~HasGeometry THEN ShapeError("no geometry")
        ELSE IF ~IsPolygon THEN ShapeError("only polygon are supported")
        ELSE IF ~HasOneRing THEN ShapeError("only polygon without holes are supported")
        ELSE shape # None /\ ~ResponseIs("InvalidShape")

C7_Witness ==
    /\ ShapeEvaluated
    /\ TheBody.type = "FeatureCollection"
    /\ ShapeError("only 'feature' is supported")

\* C8: for a Feature with a Polygon of one ring, the result holds, in the
\* order of the ring, the pair (v[1], v[0]) of every vertex v that has two
\* components or more; the other vertices are dropped, and so the result has
\* one pair per vertex when every vertex has two components.
C8_RingInverted ==
    (ShapeEvaluated /\ HasOneRing) =>
        LET ring == TheBody.geometry[1].coordinates[1]
            kept == {i \in 1..Len(ring) : Len(ring[i]) >= 2}
            nth(j) == CHOOSE i \in kept : Cardinality({k \in kept : k <= i}) = j
        IN  /\ shape # None
            /\ Len(shape[1]) = Cardinality(kept)
            /\ \A j \in 1..Len(shape[1]) :
                  shape[1][j] = <<ring[nth(j)][2], ring[nth(j)][1]>>
            /\ (\A i \in 1..Len(ring) : Len(ring[i]) >= 2) => Len(shape[1]) = Len(ring)

C8_Witness ==
    /\ ShapeEvaluated
    /\ HasOneRing
    /\ LET ring == TheBody.geometry[1].coordinates[1]
       IN  /\ Len(ring) = 3
           /\ Len(ring[1]) = 3
           /\ Len(ring[2]) = 1
           /\ Len(ring[3]) = 2
           /\ ring[1][1] # ring[3][1]
    /\ shape # None
    /\ Len(shape[1]) = 2

====
